---------------------------- MODULE Spec2Model ----------------------------
(***************************************************************************)
(* A model of memory_map: the /proc ingester (stat parser, pagemap word    *)
(* decoder) and the polling engine (ProcScanner) of src/proc_utils.        *)
(*                                                                         *)
(* Six specifications share the module's variables:                       *)
(*   Spec      the polling engine: producer thread, consumer, /proc        *)
(*   FairSpec  Spec with the producer thread scheduled fairly              *)
(*   StatSpec  the stat parser applied to bounded stat contents            *)
(*   PageSpec  PageFrame::new applied to bounded 64-bit words              *)
(*   RunSpec   fill_physical_maps applied to bounded regions and pagemaps  *)
(*   FetchSpec get_pid_info and new_memory_map on a process that may exit  *)
(***************************************************************************)
EXTENDS Integers, Sequences, FiniteSets, TLC

VARIABLES
    \* ---- the polling engine (io.rs, ProcScanner) ----
    pc,            \* position of the producer thread in its loop
    panicSite,     \* where the producer thread panicked ("" while it has not)
    chan,          \* the sync_channel's buffer: snapshots in flight
    rxAlive,       \* the Receiver (ProcScanner) has not been dropped
    proc_dirs,     \* get_process_info: the enumerated PIDs still to read
    process_list,  \* get_process_info: the records collected so far
    enumerated,    \* history: the PIDs the current scan enumerated
    scans,         \* history: number of scans started (the snapshot's id)
    offered,       \* history: id of the last snapshot passed to try_send
    accepted,      \* history: id of the last snapshot try_send enqueued
    nPolls,        \* history: number of process_info calls
    lastPoll,      \* history: result of the last process_info call
    pollView,      \* history: <<offered, accepted, firstOffer>> as of the
                   \* last poll
    polled,        \* history: ids of the snapshots the polls returned
    scansAtDrop,   \* history: value of scans when the receiver was dropped
    sendsAfterDrop,\* history: try_send calls made after the drop
    firstOffer,    \* history: id of the first snapshot passed to try_send
                   \* since the buffer was last empty (0 while there is none)
    procfs,        \* the environment: the processes under /proc
    \* ---- the stat parser (io.rs, get_process_metadata) ----
    stat_content,  \* the content of a /proc/[pid]/stat file
    stat_input,    \* history: the parts the content was built from
    stat_result,   \* outcome of parsing it (<<>> before the parse)
    \* ---- the pagemap decoder (memory.rs, PageFrame::new) ----
    word,          \* a 64-bit pagemap word, as the set of its set bits
    frame,         \* the decoded PageFrame (<<>> before the decode)
    \* ---- the run compression (memory.rs, fill_physical_maps) ----
    region,        \* the MemoryRegion's v_region_start and v_region_end
    pagemap,       \* the pagemap words from the region's first page on
    pm_io,         \* what the seek and the read on the pagemap file do
    fill_result,   \* the call's return value and the physical_regions
                   \* it left (<<>> before the call)
    \* ---- the single-process fetch (io.rs get_pid_info, mod.rs) ----
    target,        \* the environment: /proc/[pid] of the fetched process
    fetch_pc,      \* position of the caller inside get_pid_info
    fetch_stat,    \* the Process parsed from stat, before its memory map
    fetch_result,  \* what the last get_pid_info returned (<<>> before)
    fetches,       \* history: number of get_pid_info calls started
    fetch_log      \* history: per memory-map assembly, its pagemap accesses

engineVars == <<pc, panicSite, chan, rxAlive, proc_dirs, process_list,
                enumerated, scans, offered, accepted, nPolls, lastPoll,
                pollView, polled, scansAtDrop, sendsAfterDrop, firstOffer,
                procfs>>
statVars == <<stat_content, stat_input, stat_result>>
pageVars == <<word, frame>>
runVars == <<region, pagemap, pm_io, fill_result>>
fetchVars == <<target, fetch_pc, fetch_stat, fetch_result, fetches, fetch_log>>
vars == <<engineVars, statVars, pageVars, runVars, fetchVars>>

(***************************************************************************)
(* Bounds of the model.                                                    *)
(***************************************************************************)
MaxPid == 2
MaxScans == 3
MaxPolls == 3
MaxCommLen == 3
MaxPages == 3
MaxLines == 3
MaxFetches == 2

(***************************************************************************)
(* Strings are sequences of one-character strings.                         *)
(***************************************************************************)
IsWhitespace(c) == c \in {" ", "\t", "\n"}

EndsWith(tok, c) == Len(tok) > 0 /\ tok[Len(tok)] = c

MinOf(S) == CHOOSE i \in S : \A j \in S : i <= j

RECURSIVE TokensFrom(_, _)
\* The tokens of s from position i on: one step per token.
TokensFrom(s, i) ==
    LET nonws == {j \in i..Len(s) : ~IsWhitespace(s[j])}
    IN  IF nonws = {} THEN <<>>
        ELSE LET b == MinOf(nonws)
                 ws == {j \in b..Len(s) : IsWhitespace(s[j])}
                 e == IF ws = {} THEN Len(s) ELSE MinOf(ws) - 1
             IN  <<SubSeq(s, b, e)>> \o TokensFrom(s, e + 1)

\* str::split_whitespace: the maximal runs of non-whitespace characters.
split_whitespace(s) == TokensFrom(s, 1)

RECURSIVE Join(_, _)
\* [String]::join(sep)
Join(toks, sep) ==
    IF toks = <<>> THEN <<>>
    ELSE IF Len(toks) = 1 THEN toks[1]
    ELSE toks[1] \o sep \o Join(Tail(toks), sep)

IsDigit(c) == c \in {"0", "1", "2", "3", "4", "5", "6", "7", "8", "9"}

DigitValue(c) ==
    CASE c = "0" -> 0 [] c = "1" -> 1 [] c = "2" -> 2 [] c = "3" -> 3
      [] c = "4" -> 4 [] c = "5" -> 5 [] c = "6" -> 6 [] c = "7" -> 7
      [] c = "8" -> 8 [] c = "9" -> 9

RECURSIVE ParseDigits(_, _)
ParseDigits(tok, acc) ==
    IF tok = <<>> THEN acc
    ELSE ParseDigits(Tail(tok), 10 * acc + DigitValue(Head(tok)))

\* str::parse::<usize>(): <<n>> on success, <<>> on error.
parse_usize(tok) ==
    IF tok # <<>> /\ \A i \in 1..Len(tok) : IsDigit(tok[i])
    THEN <<ParseDigits(tok, 0)>>
    ELSE <<>>

(***************************************************************************)
(* ProcessState::new_from_code: the variant, or <<>> where the code        *)
(* panics.                                                                 *)
(***************************************************************************)
new_from_code(state_code) ==
    CASE state_code = "R" -> <<"Running">>
      [] state_code = "S" -> <<"Sleeping">>
      [] state_code = "D" -> <<"Waiting">>
      [] state_code = "Z" -> <<"Zombie">>
      [] state_code = "T" -> <<"Stopped">>
      [] state_code = "t" -> <<"Tracing">>
      [] state_code = "X" -> <<"Dead">>
      [] state_code = "I" -> <<"Idle">>
      [] OTHER -> <<>>

Panic(site) == [kind |-> "panic", site |-> site]

(***************************************************************************)
(* ProcessInformation::new_from_stat with preload_mapping = false: the     *)
(* fields are evaluated in the order pid, comm, state.                     *)
(***************************************************************************)
new_from_stat(stat_fields) ==
    LET pid == parse_usize(stat_fields[1])
        state == new_from_code(stat_fields[3][1])
    IN  IF pid = <<>> THEN Panic("pid_unwrap")
        ELSE IF state = <<>> THEN Panic("state_code")
        ELSE [kind |-> "ok", pid |-> pid[1], comm |-> stat_fields[2],
              state |-> state[1]]

\* The number of stat fields the parser insists on.
StatFieldCount == 52

RECURSIVE NameEndFrom(_, _)
\* The while loop that looks for the end of the program name; indexes are
\* the code's, from 0.
NameEndFrom(stat_fields, name_end) ==
    IF name_end < Len(stat_fields) /\ ~EndsWith(stat_fields[name_end + 1], ")")
    THEN NameEndFrom(stat_fields, name_end + 1)
    ELSE name_end

(***************************************************************************)
(* The body of get_process_metadata after the file was read: the record,   *)
(* or the place where the code panics.  There is no error value.           *)
(***************************************************************************)
parse_stat(proc_metadata) ==
    LET fields0 == split_whitespace(proc_metadata)
        name_end == NameEndFrom(fields0, 1)
    IN  IF name_end + 1 > Len(fields0)
        THEN Panic("name_slice")      \* stat_fields[1..(name_end+1)]
        ELSE
        LET joined == Join(SubSeq(fields0, 2, name_end + 1), <<" ">>)
            \* stat_fields[1] = joined; drain(2..(name_end+1))
            rest == SubSeq(fields0, name_end + 2, Len(fields0))
        IN  IF Len(joined) < 2
            THEN Panic("bracket_slice")  \* [1..len-1] with 1 > len-1
            ELSE
            LET comm == SubSeq(joined, 2, Len(joined) - 1)
                stat_fields == <<fields0[1], comm>> \o rest
            IN  IF Len(stat_fields) # StatFieldCount
                THEN Panic("assert_field_count")
                ELSE new_from_stat(stat_fields)


(***************************************************************************)
(* 64-bit words.  TLC's integers are 32 bits wide, so a u64 is modelled as *)
(* the set of the positions of its set bits (bit 0 is the least            *)
(* significant); the operators below are the machine's on that             *)
(* representation.                                                         *)
(***************************************************************************)
WordWidth == 64

BitPositions == 0..(WordWidth - 1)

\* The word of a literal n < 2^31.
Lit(n) == {i \in 0..30 : (n \div (2 ^ i)) % 2 = 1}

\* w << k on 64 bits
Shl(w, k) == {i + k : i \in w} \cap BitPositions

\* w >> k
Shr(w, k) == {i - k : i \in {j \in w : j >= k}}

\* a & b
BitAnd(a, b) == a \cap b

\* w - 1 for w # 0: the lowest set bit is cleared and the bits below it set.
MinusOne(w) ==
    LET low == CHOOSE i \in w : \A j \in w : i <= j
    IN  (w \ {low}) \cup {i \in BitPositions : i < low}

(***************************************************************************)
(* PageFrame::new                                                          *)
(***************************************************************************)
\* A variant that tests the swap flag before the RAM flag.
PageLocation_new_swap_first(page_index) ==
    LET ram_flag == BitAnd(page_index, Shl(Lit(1), 63)) # {}
        swap_flag == BitAnd(page_index, Shl(Lit(1), 62)) # {}
    IN  IF swap_flag
        THEN [tag |-> "SWAP",
              swap_type |-> BitAnd(page_index, Lit(31)),
              swap_offset |-> BitAnd(Shr(page_index, 5),
                                     MinusOne(Shl(Lit(1), 50)))]
        ELSE IF ram_flag
        THEN [tag |-> "RAM",
              pfn |-> BitAnd(page_index, MinusOne(Shl(Lit(1), 55)))]
        ELSE [tag |-> "NONE"]

\* The location part of PageFrame::new.

PageLocation_new(page_index) ==
    LET ram_flag == BitAnd(page_index, Shl(Lit(1), 63)) # {}
        swap_flag == BitAnd(page_index, Shl(Lit(1), 62)) # {}
    IN  IF ram_flag
        THEN [tag |-> "RAM",
              pfn |-> BitAnd(page_index, MinusOne(Shl(Lit(1), 55)))]
        ELSE IF swap_flag
        THEN [tag |-> "SWAP",
              swap_type |-> BitAnd(page_index, Lit(31)),
              swap_offset |-> BitAnd(Shr(page_index, 5),
                                     MinusOne(Shl(Lit(1), 50)))]
        ELSE [tag |-> "NONE"]

PageFrame_new(page_index) ==
    [page_location |-> PageLocation_new(page_index),
     is_file_page |-> BitAnd(page_index, Shl(Lit(1), 61)) # {},
     is_soft_dirty |-> BitAnd(page_index, Shl(Lit(55), 1)) # {}]

\* The bits the decoder's cases turn on, and their neighbours.
WordBits == {0, 1, 4, 5, 6, 54, 55, 61, 62, 63}

Words == SUBSET WordBits


(***************************************************************************)
(* The values the variables of the other specifications rest at.           *)
(***************************************************************************)
StatIdle ==
    /\ stat_content = <<>>
    /\ stat_input = <<>>
    /\ stat_result = <<>>

EngineIdle ==
    /\ pc = "idle" /\ panicSite = "" /\ chan = <<>> /\ rxAlive = FALSE
    /\ proc_dirs = <<>> /\ process_list = <<>> /\ enumerated = {}
    /\ scans = 0 /\ offered = 0 /\ accepted = 0 /\ nPolls = 0
    /\ lastPoll = <<>> /\ pollView = <<0, 0, 0>> /\ polled = <<>>
    /\ scansAtDrop = 0 /\ sendsAfterDrop = 0 /\ firstOffer = 0
    /\ procfs = <<>>

PageIdle ==
    /\ word = {}
    /\ frame = <<>>

RunIdle ==
    /\ region = <<>> /\ pagemap = <<>> /\ pm_io = <<>> /\ fill_result = <<>>

FetchIdle ==
    /\ target = <<>> /\ fetch_pc = "idle" /\ fetch_stat = <<>>
    /\ fetch_result = <<>> /\ fetches = 0 /\ fetch_log = <<>>

(***************************************************************************)
(* StatSpec: the stat parser on bounded contents.  A content is            *)
(*   1 (<comm>[)] <state> 0 0 ... 0 \n                                      *)
(* with ntail fields after the state.                                      *)
(***************************************************************************)
CommAlphabet == {"a", " ", ")"}

BoundedSeqs(S, n) == UNION {[1..k -> S] : k \in 0..n}

\* The comms of the spec's boundary cases and of scenario S1.
CommSamples ==
    { <<"(", ")">>,
      <<"a", "b", ")", "c", "d">>,
      <<"b", "a", "d", " ", ")", "n", "a", "m", "e">>,
      <<"a", " ", " ", "b">> }

Comms == BoundedSeqs(CommAlphabet, MaxCommLen) \cup CommSamples

StateCodes == {"R", "S", "D", "Z", "T", "t", "X", "I"}

\* The fields that follow the state in a well-formed stat file.
WellFormedTail == StatFieldCount - 3

\* n fields "0", each after a space.
Zeros(n) == [i \in 1..(2 * n) |-> IF i % 2 = 1 THEN " " ELSE "0"]

StatContentFor(pid_digit, in) ==
    <<pid_digit, " ", "(">> \o in.comm
        \o (IF in.closed THEN <<")">> ELSE <<>>)
        \o <<" ", in.state>> \o Zeros(in.ntail) \o <<"\n">>

StatContent(in) == StatContentFor("1", in)

StatInputs ==
    [comm : Comms, closed : BOOLEAN, state : StateCodes \cup {"Q"},
     ntail : {WellFormedTail - 1, WellFormedTail, WellFormedTail + 1}]

StatInit ==
    /\ \E in \in StatInputs :
          /\ stat_input = in
          /\ stat_content = StatContent(in)
    /\ stat_result = <<>>
    /\ PageIdle
    /\ EngineIdle
    /\ RunIdle
    /\ FetchIdle

ParseStat ==
    /\ stat_content # <<>>
    /\ stat_result = <<>>
    /\ stat_result' = <<parse_stat(stat_content)>>
    /\ UNCHANGED <<stat_content, stat_input, engineVars, pageVars, runVars,
                   fetchVars>>

StatNext == ParseStat

StatSpec == StatInit /\ [][StatNext]_vars

(***************************************************************************)
(* PageSpec: PageFrame::new on bounded words.                              *)
(***************************************************************************)
PageInit ==
    /\ word \in Words
    /\ frame = <<>>
    /\ StatIdle
    /\ EngineIdle
    /\ RunIdle
    /\ FetchIdle

Decode ==
    /\ frame = <<>>
    /\ frame' = <<PageFrame_new(word)>>
    /\ UNCHANGED <<word, engineVars, statVars, runVars, fetchVars>>

PageNext == Decode

PageSpec == PageInit /\ [][PageNext]_vars

(***************************************************************************)
(* Run compression: PageFrame::is_previous_page and                        *)
(* MemoryRegion::fill_physical_maps.                                       *)
(*                                                                         *)
(* A PageFrameMap is a function from the first virtual page of a run to    *)
(* its PageFrameRegion [frame, len]; Option values are <<>> (None) and     *)
(* <<x>> (Some(x)).                                                        *)
(***************************************************************************)
LINUX_PAGE_SIZE == 4096

\* w + 1 on 64 bits: the lowest clear bit is set and the bits below it
\* cleared (a pfn or a swap offset has at most 55 bits, so the sum never
\* overflows).
PlusOne(w) ==
    IF BitPositions \subseteq w
    THEN {}
    ELSE LET low == CHOOSE i \in BitPositions \ w :
                        \A j \in BitPositions \ w : i <= j
         IN  (w \ {i \in BitPositions : i < low}) \cup {low}

\* A variant that does not compare the swap types.
is_previous_page_any_type(self, other) ==
    IF \/ self.is_file_page # other.is_file_page
       \/ self.is_soft_dirty # other.is_soft_dirty
    THEN FALSE
    ELSE IF self.page_location.tag = "RAM" /\ other.page_location.tag = "RAM"
    THEN PlusOne(self.page_location.pfn) = other.page_location.pfn
    ELSE IF self.page_location.tag = "SWAP"
            /\ other.page_location.tag = "SWAP"
    THEN PlusOne(self.page_location.swap_offset)
             = other.page_location.swap_offset
    ELSE FALSE

\* PageFrame::is_previous_page
is_previous_page(self, other) ==
    IF \/ self.is_file_page # other.is_file_page
       \/ self.is_soft_dirty # other.is_soft_dirty
    THEN FALSE
    ELSE IF self.page_location.tag = "RAM" /\ other.page_location.tag = "RAM"
    THEN PlusOne(self.page_location.pfn) = other.page_location.pfn
    ELSE IF self.page_location.tag = "SWAP"
            /\ other.page_location.tag = "SWAP"
    THEN /\ self.page_location.swap_type = other.page_location.swap_type
         /\ PlusOne(self.page_location.swap_offset)
                = other.page_location.swap_offset
    ELSE FALSE

\* HashMap::insert
Insert(map, key, value) ==
    [k \in (DOMAIN map) \cup {key} |-> IF k = key THEN value ELSE map[k]]

\* A variant whose range includes page_index_end.
zip_inclusive(frames, page_index_start, page_index_end) ==
    LET pages == page_index_end - page_index_start + 1
    IN  [k \in 1..(IF Len(frames) < pages THEN Len(frames) ELSE pages) |->
            <<frames[k], page_index_start + k - 1>>]

\* frames.zip(page_index_start..page_index_end): the pairs of a frame and its
\* virtual page, as many as the shorter of the two.
zip(frames, page_index_start, page_index_end) ==
    LET pages == page_index_end - page_index_start
    IN  [k \in 1..(IF Len(frames) < pages THEN Len(frames) ELSE pages) |->
            <<frames[k], page_index_start + k - 1>>]

\* A variant that counts the page that opens the new run into the closed one.
RECURSIVE fill_loop_len_inclusive(_, _, _, _, _)
fill_loop_len_inclusive(page_frames, i, last_frame, v_start, physical_map) ==
    IF i > Len(page_frames)
    THEN [last_frame |-> last_frame, v_start |-> v_start,
          physical_map |-> physical_map]
    ELSE LET page_frame == page_frames[i][1]
             v_page == page_frames[i][2]
         IN  IF (last_frame # page_frame)
                    /\ ~is_previous_page(last_frame, page_frame)
             THEN fill_loop_len_inclusive(page_frames, i + 1, page_frame,
                      v_page,
                      Insert(physical_map, v_start,
                             [frame |-> last_frame,
                              len |-> v_page - v_start + 1]))
             ELSE fill_loop_len_inclusive(page_frames, i + 1, page_frame,
                                          v_start, physical_map)

\* The for loop of fill_physical_maps over the pairs from the i-th on: a
\* frame that neither equals its predecessor nor follows it closes the open
\* run, which is inserted with the predecessor as its frame.
RECURSIVE fill_loop(_, _, _, _, _)
fill_loop(page_frames, i, last_frame, v_start, physical_map) ==
    IF i > Len(page_frames)
    THEN [last_frame |-> last_frame, v_start |-> v_start,
          physical_map |-> physical_map]
    ELSE LET page_frame == page_frames[i][1]
             v_page == page_frames[i][2]
         IN  IF (last_frame # page_frame)
                    /\ ~is_previous_page(last_frame, page_frame)
             THEN fill_loop(page_frames, i + 1, page_frame, v_page,
                      Insert(physical_map, v_start,
                             [frame |-> last_frame, len |-> v_page - v_start]))
             ELSE fill_loop(page_frames, i + 1, page_frame, v_start,
                            physical_map)

\* The buffer after pagemap.read delivered `count` bytes of the file into
\* vec![0u8; ..], as native-endian (little-endian) u64s: byte b of word j is
\* the file's if it lies below count and zero otherwise.
read_u64_into(file, count, words) ==
    [j \in 1..words |->
        {b \in file[j] : 8 * (j - 1) + (b \div 8) < count}]

\* MemoryRegion::fill_physical_maps(&mut self, pagemap).  file holds the
\* pagemap's words from page_index_start on; io is what the seek and the read
\* do.  The value is the io::Result, self after the call, and the number of
\* bytes the read asked for (0 when the call did not get to the read).
fill_physical_maps(self, file, io) ==
    LET page_index_start == self.v_region_start \div LINUX_PAGE_SIZE
        page_index_end == self.v_region_end \div LINUX_PAGE_SIZE
        read_length_bytes == (page_index_end - page_index_start + 1) * 8
    IN  IF io.seek = "err"
        THEN [ret |-> "Err", self |-> self, requested |-> 0]
        ELSE IF io.read = "err"
        THEN [ret |-> "Err", self |-> self, requested |-> read_length_bytes]
        ELSE
        LET u64_buf == read_u64_into(file, io.count, read_length_bytes \div 8)
            frames == [j \in 1..Len(u64_buf) |-> PageFrame_new(u64_buf[j])]
            page_frames == zip(frames, page_index_start, page_index_end)
        IN  IF page_frames = <<>>
            THEN [ret |-> "Ok",
                  self |-> [self EXCEPT !.physical_regions = <<>>],
                  requested |-> read_length_bytes]
            ELSE
            LET out == fill_loop(page_frames, 2, page_frames[1][1],
                                 page_frames[1][2], <<>>)
                physical_map ==
                    Insert(out.physical_map, out.v_start,
                           [frame |-> out.last_frame,
                            len |-> page_index_end - out.v_start])
            IN  [ret |-> "Ok",
                 self |-> [self EXCEPT !.physical_regions = <<physical_map>>],
                 requested |-> read_length_bytes]

(***************************************************************************)
(* RunSpec: fill_physical_maps on bounded regions, pagemaps and io         *)
(* outcomes.                                                               *)
(***************************************************************************)
\* The pagemap word of a page present in RAM at frame pfn (a set of bits).
RamWord(pfn) == pfn \cup {63}

\* The pagemap word of a page swapped out to (swap_type, swap_offset).
SwapWord(swap_type, swap_offset) ==
    Lit(swap_type) \cup Shl(Lit(swap_offset), 5) \cup {62}

\* The words the pagemaps are made of: an absent page, pages at the frames
\* 0x1000, 0x1001 and 0x1002, and swapped pages of two swap types.
RunWords ==
    { {}, RamWord(Lit(4096)), RamWord(Lit(4097)), RamWord(Lit(4098)),
      SwapWord(1, 1), SwapWord(1, 2), SwapWord(16, 2) }

\* The words of frames p, p+1, p+2, p+4, followed by the word of the page
\* after the region.
RamRun(p) ==
    << RamWord(p), RamWord(PlusOne(p)), RamWord(PlusOne(PlusOne(p))),
       RamWord(PlusOne(PlusOne(PlusOne(PlusOne(p))))), {} >>

\* The first frames of the sampled four-page runs.
RunFirstFrames == {Lit(4096), Lit(7), Lit(16)}

RegionStart == 2 * LINUX_PAGE_SIZE

\* A region of n whole pages and of `extra` more bytes.
RegionOf(n, extra) ==
    [v_region_start |-> RegionStart,
     v_region_end |-> RegionStart + n * LINUX_PAGE_SIZE + extra,
     physical_regions |-> <<>>]

PageStart(r) == r.v_region_start \div LINUX_PAGE_SIZE

PageEnd(r) == r.v_region_end \div LINUX_PAGE_SIZE

\* The number of words fill_physical_maps reads for region r.
WordsRead(r) == PageEnd(r) - PageStart(r) + 1

\* What the seek and the read may do on a read of len bytes: fail, deliver
\* everything, or deliver less (nothing, all but the last word, all but the
\* last four bytes).
IoOutcomes(len) ==
    { [seek |-> "err", read |-> "ok", count |-> len],
      [seek |-> "ok", read |-> "err", count |-> len] }
    \cup { [seek |-> "ok", read |-> "ok", count |-> c] :
              c \in {len, 0, len - 8, len - 4} }

RunInit ==
    /\ \/ /\ \/ \E n \in 1..MaxPages : region = RegionOf(n, 0)
             \/ region = RegionOf(0, LINUX_PAGE_SIZE \div 2)
          /\ pagemap \in [1..WordsRead(region) -> RunWords]
       \/ \E p \in RunFirstFrames :
             /\ pagemap = RamRun(p)
             /\ region = RegionOf(Len(pagemap) - 1, 0)
    /\ pm_io \in IoOutcomes(8 * WordsRead(region))
    /\ fill_result = <<>>
    /\ StatIdle
    /\ PageIdle
    /\ EngineIdle
    /\ FetchIdle

Fill ==
    /\ region # <<>>
    /\ fill_result = <<>>
    /\ fill_result' = <<fill_physical_maps(region, pagemap, pm_io)>>
    /\ UNCHANGED <<region, pagemap, pm_io, engineVars, statVars, pageVars,
                   fetchVars>>

RunNext == Fill

RunSpec == RunInit /\ [][RunNext]_vars



(***************************************************************************)
(* Spec: the polling engine.                                               *)
(*                                                                         *)
(* The environment is /proc: each PID is a process that is alive or gone,  *)
(* whose maps file the caller may or may not open, and whose stat file has *)
(* a content.  A process may exit at any moment.                           *)
(***************************************************************************)
PIDs == 1..MaxPid

PidDigit(p) == <<"1", "2", "3", "4", "5", "6", "7", "8", "9">>[p]

\* The stat file of process p, by the name of the process: the kernel writes
\* "(a b)" for a process named "a b" and "(a) b)" for one named "a) b".
StatNames == {"a b", "a) b"}

StatFile(p, name) ==
    StatContentFor(PidDigit(p),
                   [comm |-> IF name = "a b" THEN <<"a", " ", "b">>
                                             ELSE <<"a", ")", " ", "b">>,
                    closed |-> TRUE, state |-> "S",
                    ntail |-> WellFormedTail])

ProcEntries == [alive : {TRUE}, maps_ok : BOOLEAN, name : StatNames]

\* The injective sequences over S: the orders read_dir may report.
Orders(S) ==
    {o \in [1..Cardinality(S) -> S] :
        \A i, j \in 1..Cardinality(S) : i # j => o[i] # o[j]}

\* File::open("/proc/[pid]/maps").is_ok()
MapsOpens(p) == procfs[p].alive /\ procfs[p].maps_ok

\* A variant with a channel of two slots.
ChannelCapTwo == 1 + 1

\* The sync_channel's bound.
ChannelCap == 1

Init ==
    /\ pc = "scan"
    /\ panicSite = ""
    /\ chan = <<>>
    /\ rxAlive = TRUE
    /\ proc_dirs = <<>>
    /\ process_list = <<>>
    /\ enumerated = {}
    /\ scans = 0
    /\ offered = 0
    /\ accepted = 0
    /\ nPolls = 0
    /\ lastPoll = <<>>
    /\ pollView = <<0, 0, 0>>
    /\ polled = <<>>
    /\ scansAtDrop = 0
    /\ sendsAfterDrop = 0
    /\ firstOffer = 0
    /\ procfs \in [PIDs -> ProcEntries]
    /\ StatIdle
    /\ PageIdle
    /\ RunIdle
    /\ FetchIdle

consumerVars == <<nPolls, lastPoll, pollView, polled>>
scanVars == <<proc_dirs, process_list, enumerated, scans>>
sendVars == <<offered, accepted, sendsAfterDrop>>

\* What the parse makes of each stat file of the environment (a table, so
\* that the parse is computed once per file).
ParsedStat == [p \in PIDs, name \in StatNames |-> parse_stat(StatFile(p, name))]

\* get_process_metadata(dir_path, false): File::open(stat).expect(..), then
\* the parse.
get_process_metadata(p) ==
    IF ~procfs[p].alive THEN Panic("stat_open")
    ELSE ParsedStat[p, procfs[p].name]

\* get_process_info, first half: read_dir("/proc/").unwrap() and the filters.
get_process_info_read_dir ==
    /\ pc = "scan"
    /\ \E readable \in BOOLEAN :
          IF ~readable
          THEN /\ pc' = "panicked"
               /\ panicSite' = "read_dir"
               /\ UNCHANGED scanVars
          ELSE \E order \in Orders({p \in PIDs : MapsOpens(p)}) :
                  /\ proc_dirs' = order
                  /\ enumerated' = {p \in PIDs : MapsOpens(p)}
                  /\ process_list' = <<>>
                  /\ scans' = scans + 1
                  /\ pc' = IF order = <<>> THEN "send" ELSE "stat"
                  /\ UNCHANGED panicSite
    /\ UNCHANGED <<chan, rxAlive, sendVars, consumerVars, scansAtDrop,
                   firstOffer, procfs>>
    /\ UNCHANGED <<statVars, pageVars, runVars, fetchVars>>

\* get_process_info, second half: one iteration of the loop over proc_dirs.
get_process_info_metadata ==
    /\ pc = "stat"
    /\ LET process_info == get_process_metadata(Head(proc_dirs))
       IN  IF process_info.kind = "panic"
           THEN /\ pc' = "panicked"
                /\ panicSite' = process_info.site
                /\ UNCHANGED <<proc_dirs, process_list>>
           ELSE /\ process_list' = Append(process_list, process_info)
                /\ proc_dirs' = Tail(proc_dirs)
                /\ pc' = IF Tail(proc_dirs) = <<>> THEN "send" ELSE "stat"
                /\ UNCHANGED panicSite
    /\ UNCHANGED <<enumerated, scans>>
    /\ UNCHANGED <<chan, rxAlive, sendVars, consumerVars, scansAtDrop,
                   firstOffer, procfs>>
    /\ UNCHANGED <<statVars, pageVars, runVars, fetchVars>>

\* A variant that uses the blocking send: it waits while the buffer is full.
send_blocking ==
    /\ pc = "send"
    /\ ~rxAlive \/ Len(chan) < ChannelCap
    /\ IF ~rxAlive
       THEN /\ pc' = "terminated"
            /\ UNCHANGED <<chan, offered, accepted>>
       ELSE /\ offered' = scans
            /\ pc' = "sleep"
            /\ chan' = Append(chan, [id |-> scans, procs |-> process_list])
            /\ accepted' = scans
    /\ sendsAfterDrop' = IF rxAlive THEN sendsAfterDrop ELSE sendsAfterDrop + 1
    /\ firstOffer' = IF rxAlive /\ firstOffer = 0 THEN scans ELSE firstOffer
    /\ UNCHANGED <<panicSite, rxAlive, scanVars, consumerVars, scansAtDrop,
                   procfs>>
    /\ UNCHANGED <<statVars, pageVars, runVars, fetchVars>>

\* A variant that puts the new snapshot in the place of the buffered one
\* when the buffer is full.
try_send_replace ==
    /\ pc = "send"
    /\ IF ~rxAlive
       THEN \* TrySendError::Disconnected: break
            /\ pc' = "terminated"
            /\ UNCHANGED <<chan, offered, accepted>>
       ELSE /\ offered' = scans
            /\ pc' = "sleep"
            /\ IF Len(chan) >= ChannelCap
               THEN /\ chan' = <<[id |-> scans, procs |-> process_list]>>
                    /\ accepted' = scans
               ELSE /\ chan' = Append(chan, [id |-> scans,
                                             procs |-> process_list])
                    /\ accepted' = scans
    /\ sendsAfterDrop' = IF rxAlive THEN sendsAfterDrop ELSE sendsAfterDrop + 1
    /\ firstOffer' = IF rxAlive /\ firstOffer = 0 THEN scans ELSE firstOffer
    /\ UNCHANGED <<panicSite, rxAlive, scanVars, consumerVars, scansAtDrop,
                   procfs>>
    /\ UNCHANGED <<statVars, pageVars, runVars, fetchVars>>

\* sync_sender.try_send(process_list) and the match on its error.
try_send ==
    /\ pc = "send"
    /\ IF ~rxAlive
       THEN \* TrySendError::Disconnected: break
            /\ pc' = "terminated"
            /\ UNCHANGED <<chan, offered, accepted>>
       ELSE /\ offered' = scans
            /\ pc' = "sleep"
            /\ IF Len(chan) >= ChannelCap
               THEN \* TrySendError::Full: the new snapshot is dropped
                    UNCHANGED <<chan, accepted>>
               ELSE /\ chan' = Append(chan, [id |-> scans,
                                             procs |-> process_list])
                    /\ accepted' = scans
    /\ sendsAfterDrop' = IF rxAlive THEN sendsAfterDrop ELSE sendsAfterDrop + 1
    /\ firstOffer' = IF rxAlive /\ firstOffer = 0 THEN scans ELSE firstOffer
    /\ UNCHANGED <<panicSite, rxAlive, scanVars, consumerVars, scansAtDrop,
                   procfs>>
    /\ UNCHANGED <<statVars, pageVars, runVars, fetchVars>>

\* thread::sleep(Duration::from_secs(2)), then the loop's next turn.
thread_sleep ==
    /\ pc = "sleep"
    /\ pc' = "scan"
    /\ UNCHANGED <<panicSite, chan, rxAlive, scanVars, sendVars, consumerVars,
                   scansAtDrop, firstOffer, procfs>>
    /\ UNCHANGED <<statVars, pageVars, runVars, fetchVars>>

\* A variant that uses the blocking recv: it waits while the buffer is empty
\* and the sender lives.
process_info_blocking ==
    /\ rxAlive
    /\ chan # <<>> \/ pc \in {"terminated", "panicked"}
    /\ IF chan # <<>>
       THEN /\ lastPoll' = <<Head(chan)>>
            /\ chan' = Tail(chan)
            /\ polled' = Append(polled, Head(chan).id)
            /\ firstOffer' = 0
       ELSE /\ lastPoll' = <<>>
            /\ UNCHANGED <<chan, polled, firstOffer>>
    /\ nPolls' = nPolls + 1
    /\ pollView' = <<offered, accepted, firstOffer>>
    /\ UNCHANGED <<pc, panicSite, rxAlive, scanVars, sendVars, scansAtDrop,
                   procfs>>
    /\ UNCHANGED <<statVars, pageVars, runVars, fetchVars>>

\* A variant that reads the buffered snapshot without taking it out.
process_info_peek ==
    /\ rxAlive
    /\ IF chan # <<>>
       THEN /\ lastPoll' = <<Head(chan)>>
            /\ polled' = Append(polled, Head(chan).id)
       ELSE /\ lastPoll' = <<>>
            /\ UNCHANGED polled
    /\ UNCHANGED <<chan, firstOffer>>
    /\ nPolls' = nPolls + 1
    /\ pollView' = <<offered, accepted, firstOffer>>
    /\ UNCHANGED <<pc, panicSite, rxAlive, scanVars, sendVars, scansAtDrop,
                   procfs>>
    /\ UNCHANGED <<statVars, pageVars, runVars, fetchVars>>

\* ProcScanner::process_info: self.proc_receiver.try_recv().ok()
process_info ==
    /\ rxAlive
    /\ IF chan # <<>>
       THEN /\ lastPoll' = <<Head(chan)>>
            /\ chan' = Tail(chan)
            /\ polled' = Append(polled, Head(chan).id)
            /\ firstOffer' = 0
       ELSE \* TryRecvError::Empty or ::Disconnected: None
            /\ lastPoll' = <<>>
            /\ UNCHANGED <<chan, polled, firstOffer>>
    /\ nPolls' = nPolls + 1
    /\ pollView' = <<offered, accepted, firstOffer>>
    /\ UNCHANGED <<pc, panicSite, rxAlive, scanVars, sendVars, scansAtDrop,
                   procfs>>
    /\ UNCHANGED <<statVars, pageVars, runVars, fetchVars>>

\* The ProcScanner is dropped: its Receiver disconnects the channel and the
\* buffered snapshot is discarded.
drop_scanner ==
    /\ rxAlive
    /\ rxAlive' = FALSE
    /\ chan' = <<>>
    /\ firstOffer' = 0
    /\ scansAtDrop' = scans
    /\ UNCHANGED <<pc, panicSite, scanVars, sendVars, consumerVars, procfs>>
    /\ UNCHANGED <<statVars, pageVars, runVars, fetchVars>>

\* The environment: a process exits and its /proc directory disappears.
ProcExit(p) ==
    /\ procfs[p].alive
    /\ procfs' = [procfs EXCEPT ![p].alive = FALSE]
    /\ UNCHANGED <<pc, panicSite, chan, rxAlive, scanVars, sendVars,
                   consumerVars, scansAtDrop, firstOffer>>
    /\ UNCHANGED <<statVars, pageVars, runVars, fetchVars>>

Producer ==
    \/ get_process_info_read_dir
    \/ get_process_info_metadata
    \/ try_send
    \/ (scans < MaxScans \/ ~rxAlive) /\ thread_sleep

Next ==
    \/ Producer
    \/ nPolls < MaxPolls /\ process_info
    \/ drop_scanner
    \/ \E p \in PIDs : ProcExit(p)

Spec == Init /\ [][Next]_vars

\* The producer is an OS thread of its own: it is scheduled whenever it can
\* take a step.
FairSpec == Spec /\ WF_vars(Producer)

(***************************************************************************)
(* Maps lines: MemoryRegion::new_from_map_fields.                          *)
(***************************************************************************)
IsHexDigit(c) ==
    IsDigit(c) \/ c \in {"a", "b", "c", "d", "e", "f",
                         "A", "B", "C", "D", "E", "F"}

HexValue(c) ==
    CASE IsDigit(c) -> DigitValue(c)
      [] c \in {"a", "A"} -> 10 [] c \in {"b", "B"} -> 11
      [] c \in {"c", "C"} -> 12 [] c \in {"d", "D"} -> 13
      [] c \in {"e", "E"} -> 14 [] c \in {"f", "F"} -> 15

RECURSIVE ParseHexDigits(_, _)
ParseHexDigits(tok, acc) ==
    IF tok = <<>> THEN acc
    ELSE ParseHexDigits(Tail(tok), 16 * acc + HexValue(Head(tok)))

\* usize::from_str_radix(tok, 16): <<n>> on success, <<>> on error.  A
\* leading "+" is accepted; the addresses of the model stay far below 2^64,
\* so the overflow error does not arise.
from_str_radix_16(tok) ==
    LET digits == IF tok # <<>> /\ Head(tok) = "+" THEN Tail(tok) ELSE tok
    IN  IF digits # <<>> /\ \A i \in 1..Len(digits) : IsHexDigit(digits[i])
        THEN <<ParseHexDigits(digits, 0)>>
        ELSE <<>>

RECURSIVE split(_, _)
\* str::split(c): the pieces between the occurrences of c (one step per
\* piece).
split(s, c) ==
    LET at == {j \in 1..Len(s) : s[j] = c}
    IN  IF at = {} THEN <<s>>
        ELSE <<SubSeq(s, 1, MinOf(at) - 1)>>
                 \o split(SubSeq(s, MinOf(at) + 1, Len(s)), c)

\* MemoryPermissions::new_from_str, for a string of four characters.
new_from_str(perm_str) ==
    (IF perm_str[1] = "r" THEN {"READ"} ELSE {})
        \cup (IF perm_str[2] = "w" THEN {"WRITE"} ELSE {})
        \cup (IF perm_str[3] = "x" THEN {"EXECUTE"} ELSE {})
        \cup (IF perm_str[4] = "s" THEN {"SHARED"} ELSE {})

\* MemoryRegion::new_from_map_fields: the region, or the panic of the index,
\* unwrap or assert that fails first (indexes in the site names are the
\* code's, from 0).
new_from_map_fields(map_fields) ==
    IF Len(map_fields) < 1 THEN Panic("map_fields_0")
    ELSE
    LET address == split(map_fields[1], "-")
        v_region_start == from_str_radix_16(address[1])
    IN  IF v_region_start = <<>> THEN Panic("start_unwrap")
        ELSE IF Len(address) < 2 THEN Panic("address_1")
        ELSE
        LET v_region_end == from_str_radix_16(address[2])
        IN  IF v_region_end = <<>> THEN Panic("end_unwrap")
            ELSE IF ~(v_region_start[1] < v_region_end[1])
            THEN Panic("assert_start_lt_end")
            ELSE IF Len(map_fields) < 3 THEN Panic("map_fields_2")
            ELSE
            LET offset == from_str_radix_16(map_fields[3])
                pathname == IF Len(map_fields) < 6 THEN <<>>
                                                   ELSE <<map_fields[6]>>
                perm_str == map_fields[2]
            IN  IF offset = <<>> THEN Panic("offset_unwrap")
                ELSE IF Len(perm_str) # 4 THEN Panic("assert_perm_len")
                ELSE [kind |-> "region",
                      v_region_start |-> v_region_start[1],
                      v_region_end |-> v_region_end[1],
                      offset |-> offset[1],
                      pathname |-> pathname,
                      permissions |-> new_from_str(perm_str),
                      physical_regions |-> <<>>]

(***************************************************************************)
(* FetchSpec: get_pid_info on one process.                                 *)
(*                                                                         *)
(* The environment is /proc/1: the process is alive or gone, its maps file *)
(* can be opened by the caller or not, its stat and maps files have a      *)
(* content, its pagemap file can be opened or not, and each seek and read  *)
(* on the pagemap succeeds, fails or comes back short.  The process may    *)
(* exit at any moment.                                                     *)
(***************************************************************************)
Chars(fields) == Join(fields, <<" ">>)

\* The lines of the maps files, with whether the specification counts them
\* as well-formed: two regions, and a line each with too few fields, a
\* permission field of three characters, an address that is no hex number,
\* and a start that is not below the end.
MapsLines ==
    { [text |-> Chars(<< <<"2","0","0","0","-","3","0","0","0">>,
                         <<"r","-","x","p">>, <<"0">>,
                         <<"0","8",":","0","1">>, <<"7">>, <<"/","a">> >>),
       ok |-> TRUE],
      [text |-> Chars(<< <<"3","0","0","0","-","5","0","0","0">>,
                         <<"r","w","-","p">>, <<"1","0","0","0">>,
                         <<"0","0",":","0","0">>, <<"0">> >>),
       ok |-> TRUE],
      [text |-> <<"2","0","0","0","-","3","0","0","0">>,
       ok |-> FALSE],
      [text |-> Chars(<< <<"2","0","0","0","-","3","0","0","0">>,
                         <<"r","-","x">>, <<"0">>,
                         <<"0","0",":","0","0">>, <<"0">> >>),
       ok |-> FALSE],
      [text |-> Chars(<< <<"z","z","-","3","0","0","0">>,
                         <<"r","-","-","p">>, <<"0">>,
                         <<"0","0",":","0","0">>, <<"0">> >>),
       ok |-> FALSE],
      [text |-> Chars(<< <<"3","0","0","0","-","2","0","0","0">>,
                         <<"r","-","-","p">>, <<"0">>,
                         <<"0","0",":","0","0">>, <<"0">> >>),
       ok |-> FALSE] }

\* The maps files: up to MaxLines lines, at most one of them malformed.
MapsFiles ==
    {m \in BoundedSeqs(MapsLines, MaxLines) :
        Cardinality({i \in 1..Len(m) : ~m[i].ok}) <= 1}

\* What new_from_map_fields makes of each line (a table, so that the parse
\* is computed once per line).
ParsedLine ==
    [l \in MapsLines |-> new_from_map_fields(split_whitespace(l.text))]

\* The pagemap file of the process: the word of each virtual page.
TargetPagemap ==
    [page \in 0..7 |->
        IF page = 4 THEN {} ELSE RamWord(Lit(4096 + 2 * (page \div 2)))]

\* The words of the file from the region's first page on, as many as
\* fill_physical_maps reads.
PagemapSlice(file, r) ==
    [j \in 1..WordsRead(r) |-> file[PageStart(r) + j - 1]]

\* What a pagemap access does.
IoKinds == {"ok", "seek_err", "read_err", "short"}

IoOf(kind, len) ==
    [seek |-> IF kind = "seek_err" THEN "err" ELSE "ok",
     read |-> IF kind = "read_err" THEN "err" ELSE "ok",
     count |-> IF kind = "short" THEN 0 ELSE len]

Targets ==
    [alive : {TRUE}, maps_ok : BOOLEAN, pagemap_ok : BOOLEAN,
     name : StatNames, maps : MapsFiles]

\* A variant that keeps the pagemap handle after an error.
RECURSIVE regions_loop_keep_handle(_, _, _, _)
regions_loop_keep_handle(lines, i, io, st) ==
    IF i > Len(lines) THEN st
    ELSE
    LET parsed == ParsedLine[lines[i]]
    IN  IF parsed.kind = "panic"
        THEN [st EXCEPT !.panic = <<parsed>>]
        ELSE IF ~st.pagemap_option
        THEN regions_loop_keep_handle(lines, i + 1, io,
                 [st EXCEPT !.mem = Append(@, parsed)])
        ELSE
        LET result == fill_physical_maps(parsed,
                          PagemapSlice(TargetPagemap, parsed),
                          IoOf(io[i], 8 * WordsRead(parsed)))
        IN  regions_loop_keep_handle(lines, i + 1, io,
                [st EXCEPT !.mem = Append(@, result.self),
                           !.accesses = Append(@, i),
                           !.failed = IF result.ret = "Err"
                                      THEN @ \cup {i} ELSE @])

\* The loop of new_memory_map over the maps lines from the i-th on.  st holds
\* mem, pagemap_option (whether it is Some), the panic that ended the loop
\* (<<>> while there is none) and, as history, the lines for which the
\* pagemap was accessed and those whose access returned an error.
RECURSIVE regions_loop(_, _, _, _)
regions_loop(lines, i, io, st) ==
    IF i > Len(lines) THEN st
    ELSE
    LET parsed == ParsedLine[lines[i]]
    IN  IF parsed.kind = "panic"
        THEN [st EXCEPT !.panic = <<parsed>>]
        ELSE IF ~st.pagemap_option
        THEN regions_loop(lines, i + 1, io,
                 [st EXCEPT !.mem = Append(@, parsed)])
        ELSE
        LET result == fill_physical_maps(parsed,
                          PagemapSlice(TargetPagemap, parsed),
                          IoOf(io[i], 8 * WordsRead(parsed)))
        IN  regions_loop(lines, i + 1, io,
                [st EXCEPT !.mem = Append(@, result.self),
                           !.pagemap_option = (result.ret # "Err"),
                           !.accesses = Append(@, i),
                           !.failed = IF result.ret = "Err"
                                      THEN @ \cup {i} ELSE @])

\* ProcessMemoryMap::new_memory_map(pid, true) on the process t, with io[i]
\* what a pagemap access for the i-th line does: the state the loop ends in,
\* or the panic of File::open(maps).expect(..).
new_memory_map(t, io) ==
    IF ~(t.alive /\ t.maps_ok)
    THEN Panic("maps_open")
    ELSE regions_loop(t.maps, 1, io,
             [mem |-> <<>>, pagemap_option |-> t.pagemap_ok, panic |-> <<>>,
              opened |-> t.pagemap_ok, accesses |-> <<>>, failed |-> {}])

FetchInit ==
    /\ target \in Targets
    /\ fetch_pc = "call"
    /\ fetch_stat = <<>>
    /\ fetch_result = <<>>
    /\ fetches = 1
    /\ fetch_log = <<>>
    /\ StatIdle
    /\ PageIdle
    /\ EngineIdle
    /\ RunIdle

\* get_pid_info: the probe File::open(process_path.join("maps")).
get_pid_info_probe ==
    /\ fetch_pc = "call"
    /\ IF target.alive /\ target.maps_ok
       THEN /\ fetch_pc' = "stat"
            /\ UNCHANGED fetch_result
       ELSE /\ fetch_pc' = "returned"
            /\ fetch_result' = <<[kind |-> "err"]>>
    /\ UNCHANGED <<target, fetch_stat, fetches, fetch_log>>
    /\ UNCHANGED <<engineVars, statVars, pageVars, runVars>>

\* get_process_metadata(path, true) up to the call of new_from_stat's
\* new_memory_map: File::open(stat).expect(..), the parse, pid, comm, state.
get_pid_info_metadata ==
    /\ fetch_pc = "stat"
    /\ LET info == IF ~target.alive THEN Panic("stat_open")
                           ELSE ParsedStat[1, target.name]
       IN  IF info.kind = "panic"
           THEN /\ fetch_pc' = "panicked"
                /\ fetch_result' = <<info>>
                /\ UNCHANGED fetch_stat
           ELSE /\ fetch_pc' = "maps"
                /\ fetch_stat' = <<info>>
                /\ UNCHANGED fetch_result
    /\ UNCHANGED <<target, fetches, fetch_log>>
    /\ UNCHANGED <<engineVars, statVars, pageVars, runVars>>

\* new_memory_map(pid, true) and the return of get_pid_info.
get_pid_info_memory ==
    /\ fetch_pc = "maps"
    /\ \E io \in [1..Len(target.maps) -> IoKinds] :
          LET out == new_memory_map(target, io)
              prev_failed == fetch_log # <<>> /\ fetch_log[1].failed # {}
          IN  IF "kind" \in DOMAIN out
              THEN /\ fetch_pc' = "panicked"
                   /\ fetch_result' = <<out>>
                   /\ UNCHANGED fetch_log
              ELSE IF out.panic # <<>>
              THEN /\ fetch_pc' = "panicked"
                   /\ fetch_result' = out.panic
                   /\ UNCHANGED fetch_log
              ELSE /\ fetch_pc' = "returned"
                   /\ fetch_result' =
                          <<[kind |-> "ok", pid |-> fetch_stat[1].pid,
                             comm |-> fetch_stat[1].comm,
                             state |-> fetch_stat[1].state,
                             memory |-> <<[regions |-> out.mem]>>]>>
                   /\ fetch_log' = <<[opened |-> out.opened,
                                     accesses |-> out.accesses,
                                     failed |-> out.failed,
                                     after_failure |-> prev_failed]>>
    /\ UNCHANGED <<target, fetch_stat, fetches>>
    /\ UNCHANGED <<engineVars, statVars, pageVars, runVars>>

\* The caller calls get_pid_info for the same PID once more.
get_pid_info_call ==
    /\ fetch_pc = "returned"
    /\ fetches < MaxFetches
    /\ fetches' = fetches + 1
    /\ fetch_pc' = "call"
    /\ fetch_stat' = <<>>
    /\ fetch_result' = <<>>
    /\ UNCHANGED <<target, fetch_log>>
    /\ UNCHANGED <<engineVars, statVars, pageVars, runVars>>

\* The environment: the process exits and /proc/1 disappears.
TargetExit ==
    /\ target # <<>>
    /\ target.alive
    /\ target' = [target EXCEPT !.alive = FALSE]
    /\ UNCHANGED <<fetch_pc, fetch_stat, fetch_result, fetches, fetch_log>>
    /\ UNCHANGED <<engineVars, statVars, pageVars, runVars>>

FetchNext ==
    \/ get_pid_info_probe
    \/ get_pid_info_metadata
    \/ get_pid_info_memory
    \/ get_pid_info_call
    \/ TargetExit

FetchSpec == FetchInit /\ [][FetchNext]_vars



(***************************************************************************)
(*                              The claims                                 *)
(***************************************************************************)

\* C1: the producer never blocks on the hand-off.  Whenever the producer is
\* at its try_send, the call can return at once; when the slot is already
\* full, every way the call can end leaves the slot as it is and takes the
\* producer to its sleep, from which it goes on to the next scan.  None of
\* this depends on the consumer polling.
C1_ProducerNeverBlocks ==
    /\ (pc = "send") => ENABLED try_send
    /\ (pc = "send" /\ Len(chan) >= ChannelCap) =>
          ~ENABLED (try_send /\ ~(pc' = "sleep" /\ chan' = chan))
    /\ (pc = "sleep") => ENABLED (thread_sleep /\ pc' = "scan")

\* The producer went on to its sleep after a try_send that found the slot
\* full, and the consumer has never polled.
C1_Witness ==
    /\ pc = "sleep"
    /\ Len(chan) = ChannelCap
    /\ offered > accepted
    /\ nPolls = 0

\* The producer thread was aborted by the one error that is fatal by
\* design: /proc itself could not be opened.
AbortedOnProc == pc = "panicked" /\ panicSite = "read_dir"

\* C2: cancellation.  Once the receiver is dropped the producer eventually
\* reaches Terminated (unless /proc itself fails first); it gets there only
\* by a try_send, the first one made after the drop, which delivers nothing;
\* Terminated is absorbing; and at most one scan is started after the drop.
C2_Cancellation ==
    /\ (~rxAlive) ~> (pc = "terminated" \/ AbortedOnProc)
    /\ [][(pc # "terminated" /\ pc' = "terminated")
            => (pc = "send" /\ ~rxAlive /\ sendsAfterDrop = 0
                /\ chan = <<>> /\ chan' = <<>>)]_vars
    /\ [][(pc = "terminated")
            => (pc' = "terminated" /\ scans' = scans /\ chan' = chan
                /\ offered' = offered)]_vars
    /\ [](~rxAlive => scans <= scansAtDrop + 1)

\* What a poll must do in the current state.
PollOutcome ==
    IF chan # <<>>
    THEN lastPoll' = <<Head(chan)>> /\ chan' = <<>>
    ELSE lastPoll' = <<>> /\ chan' = chan

\* C3: process_info never blocks.  In every state in which the scanner
\* exists the call can return at once, and every way it can end returns
\* exactly the waiting snapshot, leaving the slot empty, or returns no data
\* when the slot is empty, whatever the producer is doing.
C3_PollNonBlocking ==
    rxAlive =>
        /\ ENABLED process_info
        /\ ~ENABLED (process_info /\ ~PollOutcome)

\* A poll returned no data after the producer thread had exited, and an
\* earlier poll had returned a snapshot.
C3_Witness ==
    /\ rxAlive
    /\ pc = "panicked"
    /\ nPolls > 1
    /\ lastPoll = <<>>
    /\ polled # <<>>

\* C4: the snapshots the polls return, in the order of the polls, are a
\* subsequence of the production sequence: each was produced, each later
\* than the one returned before it, none twice.
C4_PolledInProductionOrder ==
    /\ \A i \in 1..Len(polled) : polled[i] \in 1..scans
    /\ \A i, j \in 1..Len(polled) : i < j => polled[i] < polled[j]

\* Two polls returned snapshots and a snapshot produced between them was
\* skipped.
C4_Witness ==
    /\ Len(polled) >= 2
    /\ polled[2] > polled[1] + 1

\* C5 as stated: a snapshot that a poll returns is the most recent one the
\* producer had offered to the slot by the time of the poll.
C5_MostRecentOffered ==
    (lastPoll # <<>>) => (lastPoll[1].id = pollView[1])

\* C5 as amended: a snapshot that a poll returns is the most recent one the
\* producer's try_send had enqueued by the time of the poll; the snapshots
\* offered after it found the slot full and were dropped.
C5_MostRecentAccepted ==
    (lastPoll # <<>>) =>
        /\ lastPoll[1].id = pollView[2]
        /\ pollView[2] <= pollView[1]

\* A poll returned a snapshot although a later one had already been offered.
C5_Witness ==
    /\ lastPoll # <<>>
    /\ pollView[1] > pollView[2]
    /\ lastPoll[1].id = pollView[2]

PidsOf(list) == {list[i].pid : i \in 1..Len(list)}

\* C6: per-process failures are contained.  The producer thread stops by a
\* panic only when /proc itself cannot be opened, it is Terminated only
\* after the consumer has gone, and a finished scan holds every enumerated
\* process whose stat file can be read and parsed.
C6_PerProcessFailuresContained ==
    /\ (pc = "panicked") => (panicSite = "read_dir")
    /\ (pc = "terminated") => ~rxAlive
    /\ (pc = "send") =>
          \A p \in enumerated :
              get_process_metadata(p).kind = "ok" => p \in PidsOf(process_list)

\* The input is of the form the claim C7 is about: "1 (c) s f1 .. f49" with a
\* known state code.
WellFormedStat(in) ==
    /\ in.closed
    /\ in.state \in StateCodes
    /\ in.ntail = WellFormedTail

\* C7: for every well-formed stat content the parser returns a record whose
\* comm is exactly the string between the outer brackets.
C7_CommPreserved ==
    (stat_result # <<>> /\ WellFormedStat(stat_input)) =>
        /\ stat_result[1].kind = "ok"
        /\ stat_result[1].comm = stat_input.comm

\* The three kinds of bad input of C8, read off the content's tokens.
NameEnds(toks) == {i \in 2..Len(toks) : EndsWith(toks[i], ")")}

CountAfterJoin(toks) == Len(toks) - (MinOf(NameEnds(toks)) - 2)

BadStat(content) ==
    LET toks == split_whitespace(content)
    IN  \/ NameEnds(toks) = {}
        \/ CountAfterJoin(toks) # StatFieldCount
        \/ toks[MinOf(NameEnds(toks)) + 1][1] \notin StateCodes

\* C8: on bad input the parser's outcome is the error value MalformedStat.
C8_MalformedStatReported ==
    (stat_result # <<>> /\ BadStat(stat_content)) =>
        stat_result[1].kind = "MalformedStat"

C10_FlagBits ==
    (frame # <<>>) =>
        /\ frame[1].is_file_page <=> (61 \in word)
        /\ frame[1].is_soft_dirty <=> (55 \in word)

\* The call has been made, and its seek and read delivered every byte asked
\* for.
FullRead ==
    /\ fill_result # <<>>
    /\ pm_io = [seek |-> "ok", read |-> "ok", count |-> 8 * WordsRead(region)]

\* The frames of the pages of region r, page by page, when the pagemap holds
\* the words of file.
FramesOf(r, file) ==
    [j \in 1..(PageEnd(r) - PageStart(r)) |-> PageFrame_new(file[j])]

\* C11: run compression is lossless.  The map a region's pagemap compresses
\* to determines the frame of every page of the region: no other pagemap
\* over the same pages, with a different frame for one of them, compresses to
\* the same map.
C11_RunCompressionLossless ==
    FullRead =>
        \A other \in [1..WordsRead(region) -> RunWords] :
            fill_physical_maps(region, other, pm_io).self.physical_regions
                    = fill_result[1].self.physical_regions
                => FramesOf(region, other) = FramesOf(region, pagemap)

\* C12: a region of four pages whose pagemap words are RAM-present with the
\* frames p, p+1, p+2, p+4 compresses to exactly two runs: one at the first
\* page with frame RAM(p) and len 3, one at the fourth page with frame
\* RAM(p+4) and len 1.
C12_RamRunScenario ==
    \A p \in RunFirstFrames :
        FullRead /\ pagemap = RamRun(p) =>
            /\ fill_result[1].ret = "Ok"
            /\ fill_result[1].self.physical_regions # <<>>
            /\ LET physical_map == fill_result[1].self.physical_regions[1]
                   first == PageStart(region)
               IN  /\ DOMAIN physical_map = {first, first + 3}
                   /\ physical_map[first].frame.page_location
                          = [tag |-> "RAM", pfn |-> p]
                   /\ physical_map[first].len = 3
                   /\ physical_map[first + 3].frame.page_location
                          = [tag |-> "RAM",
                             pfn |-> PlusOne(PlusOne(PlusOne(PlusOne(p))))]
                   /\ physical_map[first + 3].len = 1

\* A region of exactly one page, page-aligned.
OnePage(r) ==
    /\ r.v_region_end - r.v_region_start = LINUX_PAGE_SIZE
    /\ r.v_region_start % LINUX_PAGE_SIZE = 0
    /\ r.v_region_end % LINUX_PAGE_SIZE = 0

\* C13: for a region of exactly one page the mapper asks the pagemap for two
\* words (those of page_start and of page_end) and stores at most one run, of
\* len at most 1; the word of page_end contributes no frame: what is stored
\* is the frame of the first word as read, and it is the same whatever the
\* second word is.
C13_OnePageRegion ==
    fill_result # <<>> /\ OnePage(region) =>
        LET res == fill_result[1]
            stored == res.self.physical_regions
        IN  /\ pm_io.seek = "ok" => res.requested = 2 * 8
            /\ stored # <<>> =>
                  /\ Cardinality(DOMAIN stored[1]) <= 1
                  /\ \A k \in DOMAIN stored[1] :
                        /\ k = PageStart(region)
                        /\ stored[1][k].len <= 1
                        /\ stored[1][k].frame
                              = PageFrame_new(
                                    read_u64_into(pagemap, pm_io.count, 2)[1])
            /\ \A w \in RunWords :
                  fill_physical_maps(region, <<pagemap[1], w>>, pm_io).self
                      = res.self

\* A one-page region was mapped from a pagemap whose second word is the frame
\* after the first word's, and one run of one page was stored.
C13_Witness ==
    /\ FullRead
    /\ OnePage(region)
    /\ pagemap = <<RamWord(Lit(4096)), RamWord(Lit(4097))>>
    /\ fill_result[1].self.physical_regions # <<>>
    /\ fill_result[1].self.physical_regions[1][PageStart(region)].len = 1

\* C15: a short pagemap read is an error.  When the read delivers fewer bytes
\* than the (page_end - page_start + 1) * 8 asked for, the call returns the
\* error and the region is left without a map.
C15_ShortReadIsError ==
    /\ fill_result # <<>>
    /\ pm_io.seek = "ok"
    /\ pm_io.read = "ok"
    /\ pm_io.count < 8 * WordsRead(region)
    => /\ fill_result[1].ret = "Err"
       /\ fill_result[1].self.physical_regions = <<>>

\* The call got past its seek and its read.
ReadDone ==
    fill_result # <<>> /\ pm_io.seek = "ok" /\ pm_io.read = "ok"

\* The frames of the region's pages as the call decoded them from its buffer.
ReadFrames ==
    LET u64_buf == read_u64_into(pagemap, pm_io.count, WordsRead(region))
    IN  [j \in 1..(PageEnd(region) - PageStart(region)) |->
            PageFrame_new(u64_buf[j])]

\* y = x + 1, bit by bit: below some bit k, x is all ones and y all zeros;
\* bit k is clear in x and set in y; above k they agree.
Successor(x, y) ==
    \E k \in BitPositions :
        /\ k \notin x /\ k \in y
        /\ \A j \in BitPositions :
              /\ j < k => j \in x /\ j \notin y
              /\ j > k => (j \in x <=> j \in y)

\* The merge rule as the specification words it.
MergeRule(a, b) ==
    \/ a = b
    \/ /\ a.is_file_page = b.is_file_page
       /\ a.is_soft_dirty = b.is_soft_dirty
       /\ \/ /\ a.page_location.tag = "RAM"
             /\ b.page_location.tag = "RAM"
             /\ Successor(a.page_location.pfn, b.page_location.pfn)
          \/ /\ a.page_location.tag = "SWAP"
             /\ b.page_location.tag = "SWAP"
             /\ a.page_location.swap_type = b.page_location.swap_type
             /\ Successor(a.page_location.swap_offset,
                          b.page_location.swap_offset)

\* C19: two successive frames a, b of a region are in the same run (the page
\* of b opens no run of the stored map) if and only if a = b, or their flags
\* agree and b's location is the RAM frame or the swap offset after a's;
\* frames of different location variants, a NONE frame next to a different
\* frame, and swap frames of different swap types start a new run.
C19_MergeRule ==
    ReadDone /\ PageStart(region) < PageEnd(region) =>
        LET physical_map == fill_result[1].self.physical_regions[1]
            first == PageStart(region)
        IN  \A i \in 1..(Len(ReadFrames) - 1) :
                LET a == ReadFrames[i]
                    b == ReadFrames[i + 1]
                    new_run == (first + i) \in DOMAIN physical_map
                IN  /\ ~new_run <=> MergeRule(a, b)
                    /\ a.page_location.tag # b.page_location.tag => new_run
                    /\ /\ "NONE" \in {a.page_location.tag,
                                      b.page_location.tag}
                       /\ a # b
                       => new_run
                    /\ /\ a.page_location.tag = "SWAP"
                       /\ b.page_location.tag = "SWAP"
                       /\ a.page_location.swap_type
                              # b.page_location.swap_type
                       => new_run

\* Three pages: two swapped pages at successive offsets of one swap area,
\* then a page in RAM; the stored runs start at the first and the third.
C19_Witness ==
    /\ FullRead
    /\ PageEnd(region) - PageStart(region) = 3
    /\ SubSeq(pagemap, 1, 3)
           = <<SwapWord(1, 1), SwapWord(1, 2), RamWord(Lit(4096))>>
    /\ DOMAIN fill_result[1].self.physical_regions[1]
           = {PageStart(region), PageStart(region) + 2}

\* The sum of the lens of the runs of a map.
RECURSIVE SumLens(_)
SumLens(map) ==
    IF DOMAIN map = {}
    THEN 0
    ELSE LET k == CHOOSE x \in DOMAIN map : TRUE
         IN  map[k].len + SumLens([x \in (DOMAIN map) \ {k} |-> map[x]])

\* C20: the stored runs partition the region's pages.  When page_start <
\* page_end a map is stored; its smallest key is page_start, every len is at
\* least 1, every run ends where the run of the next larger key starts, the
\* last run ends at page_end, and the lens sum to page_end - page_start.
\* When page_start = page_end no map is stored.
C20_RunsPartitionRange ==
    ReadDone =>
        LET stored == fill_result[1].self.physical_regions
        IN  IF PageStart(region) = PageEnd(region)
            THEN stored = <<>>
            ELSE /\ stored # <<>>
                 /\ LET physical_map == stored[1]
                        keys == DOMAIN physical_map
                    IN  /\ PageStart(region) \in keys
                        /\ \A k \in keys :
                              /\ k >= PageStart(region)
                              /\ physical_map[k].len >= 1
                              /\ LET later == {x \in keys : x > k}
                                     end == k + physical_map[k].len
                                 IN  IF later = {}
                                     THEN end = PageEnd(region)
                                     ELSE /\ end \in later
                                          /\ \A x \in later : end <= x
                        /\ SumLens(physical_map)
                              = PageEnd(region) - PageStart(region)

\* A region of three pages was stored as three runs of one page each.
C20_Witness ==
    /\ ReadDone
    /\ PageEnd(region) - PageStart(region) = 3
    /\ fill_result[1].self.physical_regions # <<>>
    /\ DOMAIN fill_result[1].self.physical_regions[1]
           = PageStart(region)..(PageEnd(region) - 1)

\* get_pid_info has returned a record.
Fetched ==
    /\ fetch_pc = "returned"
    /\ fetch_result # <<>>
    /\ fetch_result[1].kind = "ok"

\* C14: pagemap errors are contained per process.  In a record assembled in
\* full mode there is one region per maps line, in the order of the lines.
\* If the seek or the read on the pagemap failed for the i-th region, the
\* pagemap was accessed for no later region in that assembly, the regions
\* after i have no physical map, and the regions before i have theirs.  An
\* assembly that follows one with such a failure accesses the pagemap again.
C14_PagemapErrorsContained ==
    Fetched =>
        LET regions == fetch_result[1].memory[1].regions
            log == fetch_log[1]
        IN  /\ Len(regions) = Len(target.maps)
            /\ \A j \in 1..Len(regions) :
                  [regions[j] EXCEPT !.physical_regions = <<>>]
                      = ParsedLine[target.maps[j]]
            /\ \A i \in log.failed :
                  /\ \A k \in 1..Len(log.accesses) : log.accesses[k] <= i
                  /\ \A j \in 1..Len(regions) :
                        /\ j > i => regions[j].physical_regions = <<>>
                        /\ j < i => regions[j].physical_regions # <<>>
            /\ log.after_failure /\ target.pagemap_ok /\ target.maps # <<>>
                  => log.accesses # <<>> /\ log.accesses[1] = 1

\* A second assembly of a process with three regions, after one in which a
\* pagemap access failed: the access for the second region failed, the first
\* region has its map and the third has none.
C14_Witness ==
    /\ Fetched
    /\ fetches = 2
    /\ Len(target.maps) = 3
    /\ fetch_log[1].after_failure
    /\ fetch_log[1].failed = {2}
    /\ fetch_result[1].memory[1].regions[1].physical_regions # <<>>
    /\ fetch_result[1].memory[1].regions[3].physical_regions = <<>>

\* The panics of new_from_map_fields.
MapsLineSites ==
    {"map_fields_0", "start_unwrap", "address_1", "end_unwrap",
     "assert_start_lt_end", "map_fields_2", "offset_unwrap",
     "assert_perm_len"}

\* The assembly of the memory map got to the lines of the maps file, and has
\* ended.
MapsLinesRead ==
    /\ fetch_pc \in {"returned", "panicked"}
    /\ fetch_result # <<>>
    /\ \/ fetch_result[1].kind = "ok"
       \/ /\ fetch_result[1].kind = "panic"
          /\ fetch_result[1].site \in MapsLineSites

IsWellFormed(line) == line.ok

\* C16: a malformed maps line is skipped.  Whatever line of the maps file is
\* malformed, the assembly ends with a record, and its regions are those of
\* the well-formed lines, in the order of the lines.
C16_MalformedLineSkipped ==
    MapsLinesRead =>
        /\ fetch_result[1].kind = "ok"
        /\ LET regions == fetch_result[1].memory[1].regions
               good == SelectSeq(target.maps, IsWellFormed)
           IN  /\ Len(regions) = Len(good)
               /\ \A j \in 1..Len(regions) :
                     [regions[j] EXCEPT !.physical_regions = <<>>]
                         = ParsedLine[good[j]]

\* C17: get_pid_info always ends in a result value, however the exit of the
\* process interleaves with it: the call never dies on a file of /proc/[pid]
\* that cannot be opened any more, and what it returns is either the
\* NotAccessible error or a record with its memory map.
C17_FetchAlwaysReturns ==
    /\ ~(/\ fetch_pc = "panicked"
         /\ fetch_result[1].site \in {"stat_open", "maps_open"})
    /\ fetch_pc = "returned" =>
          \/ fetch_result[1].kind = "err"
          \/ /\ fetch_result[1].kind = "ok"
             /\ fetch_result[1].memory # <<>>

\* C18: the backpressure policy is drop-new.  When the producer is at its
\* try_send and the buffer is full, no outcome of the call changes the
\* buffer; no step of the producer changes a buffered snapshot; so the
\* buffered snapshot is the first one offered since the buffer was last
\* empty, and that is the one a poll returns.
C18_DropNew ==
    /\ pc = "send" /\ rxAlive /\ Len(chan) >= ChannelCap
          => ~ENABLED (try_send /\ chan' # chan)
    /\ chan # <<>> => ~ENABLED (Producer /\ chan' # chan)
    /\ chan # <<>> => Head(chan).id = firstOffer
    /\ lastPoll # <<>> => lastPoll[1].id = pollView[3]

\* A poll returned a snapshot after a later one had been offered to the full
\* buffer and dropped: the snapshot returned is the first offered, not the
\* last.
C18_Witness ==
    /\ lastPoll # <<>>
    /\ lastPoll[1].id = pollView[3]
    /\ pollView[1] > lastPoll[1].id
    /\ pollView[2] = lastPoll[1].id


=============================================================================
